---- MODULE Spec2Model ----
(***************************************************************************)
(* Model of generateBookData (frontend/src/lib/book-generator.ts): the     *)
(* breadth-first generation resolver, the fallback pass, the per-person    *)
(* entries, the chapters, the name index and the returned BookData.        *)
(*                                                                         *)
(* Encoding of JavaScript values:                                          *)
(*   - a person handle is a number 1..NumPeople; GhostHandle is a handle   *)
(*     that names no person of the input; NoHandle (0) is an absent        *)
(*     (falsy) fatherHandle / motherHandle;                                *)
(*   - a union handle is its position in the families array; DanglingId    *)
(*     is a union id that names no union of the input;                     *)
(*   - a missing number (birthYear, deathYear, the generation hint) is 0:  *)
(*     the code tests these by truthiness, so undefined and 0 take the     *)
(*     same branch; an undefined childIndex is NoIndex (0), which no       *)
(*     defined childIndex (idx + 1 >= 1) equals;                           *)
(*   - an undefined string is Undefined; strings are written without       *)
(*     their diacritics.                                                   *)
(***************************************************************************)
EXTENDS Integers, Sequences, FiniteSets, TLC

\* ------------------------------------------------------------------ bounds
NumPeople == 3
NumUnions == 2
MaxChildren == 2
MaxCalls == 2

\* --------------------------------------------------------------- encodings
NoHandle == 0
NoIndex == 0
NoHint == 0
SortDefault == 99
Undefined == "undefined"
OutOfLineage == "Ngoai toc"
DefaultFamilyName == "Hoang"

Handles == 1..NumPeople
GhostHandle == NumPeople + 1
UnionIds == 1..NumUnions
DanglingId == NumUnions + 1

\* ----------------------------------------------------------------- helpers
RECURSIVE Concat(_)
Concat(ss) == IF ss = <<>> THEN <<>> ELSE Head(ss) \o Concat(Tail(ss))

MapSeq(s, F(_)) == [i \in 1..Len(s) |-> F(s[i])]

IndexOf(s, x) ==
    IF \E i \in 1..Len(s) : s[i] = x
    THEN (CHOOSE i \in 1..Len(s) : s[i] = x /\ \A j \in 1..(i - 1) : s[j] # x) - 1
    ELSE -1

MaxOf(S) == CHOOSE m \in S : \A x \in S : x <= m

\* Array.prototype.sort is stable. Sorting is modelled on (key, val) pairs,
\* ascending by key: an element goes after every element whose key is not
\* greater than its own.
RECURSIVE InsertByKey(_, _)
InsertByKey(x, s) ==
    IF s = <<>> THEN <<x>>
    ELSE IF x.key < Head(s).key THEN <<x>> \o s
    ELSE <<Head(s)>> \o InsertByKey(x, Tail(s))

RECURSIVE SortPairs(_)
SortPairs(s) ==
    IF s = <<>> THEN <<>>
    ELSE InsertByKey(s[Len(s)], SortPairs(SubSeq(s, 1, Len(s) - 1)))

StableSortBy(s, Key(_)) ==
    MapSeq(SortPairs(MapSeq(s, LAMBDA x : [key |-> Key(x), val |-> x])),
           LAMBDA kv : kv.val)

\* ------------------------------------------------- personMap and familyMap
\* new Map(people.map(p => [p.handle, p])): a later entry replaces an earlier
\* one with the same handle.
HasPerson(ps, h) == \E i \in 1..Len(ps) : ps[i].handle = h
PersonOf(ps, h) ==
    ps[CHOOSE i \in 1..Len(ps) :
         ps[i].handle = h /\ \A j \in (i + 1)..Len(ps) : ps[j].handle # h]

HasFamily(fs, id) == \E i \in 1..Len(fs) : fs[i].handle = id
FamilyOf(fs, id) ==
    fs[CHOOSE i \in 1..Len(fs) :
         fs[i].handle = id /\ \A j \in (i + 1)..Len(fs) : fs[j].handle # id]

\* ------------------------------------------------ Step 1: the generations
Range(s) == {s[i] : i \in 1..Len(s)}

\* The people who are children in any union.
childOfFamily(fs) == UNION {Range(fs[i].children) : i \in 1..Len(fs)}

\* A valid root is patrilineal and a child of no union.
IsRoot(p, fs) == p.isPatrilineal /\ p.handle \notin childOfFamily(fs)
roots(ps, fs) == SelectSeq(ps, LAMBDA p : IsRoot(p, fs))

Entry(h, g) == [handle |-> h, gen |-> g]
RootQueue(ps, fs) == MapSeq(roots(ps, fs), LAMBDA r : Entry(r.handle, 0))

Has(gens, h) == h \in DOMAIN gens
SetGen(gens, h, g) == [x \in DOMAIN gens \cup {h} |-> IF x = h THEN g ELSE gens[x]]

\* The entries one union contributes when a person of generation gen is
\* expanded: father and mother at gen, every child at gen + 1, each only while
\* it has no generation yet.
PushParent(h, gen, gens) ==
    IF h # NoHandle /\ ~Has(gens, h) THEN <<Entry(h, gen)>> ELSE <<>>
PushChildrenSameGen(chs, gen, gens) ==
    MapSeq(SelectSeq(chs, LAMBDA ch : ~Has(gens, ch)), LAMBDA ch : Entry(ch, gen))
PushChildren(chs, gen, gens) ==
    MapSeq(SelectSeq(chs, LAMBDA ch : ~Has(gens, ch)), LAMBDA ch : Entry(ch, gen + 1))
PushFamily(fam, gen, gens) ==
    PushParent(fam.fatherHandle, gen, gens)
      \o PushParent(fam.motherHandle, gen, gens)
      \o PushChildren(fam.children, gen, gens)

\* for (const famId of person.families): unions that familyMap lacks are skipped.
Expand(person, gen, gens, fs) ==
    Concat(MapSeq(person.families,
                  LAMBDA famId : IF HasFamily(fs, famId)
                                 THEN PushFamily(FamilyOf(fs, famId), gen, gens)
                                 ELSE <<>>))

\* queue.shift()
ShiftKeepsHead(q) == q
Shift(q) == Tail(q)
\* queue.push(...)
PushFront(q, es) == es \o q
Push(q, es) == q \o es

\* One iteration of the while loop on (queue, generations).
BfsIteration(q, gens, ps, fs) ==
    LET e == Head(q)
        rest == Shift(q)
    IN  IF Has(gens, e.handle) THEN [queue |-> rest, generations |-> gens]
        ELSE LET g2 == SetGen(gens, e.handle, e.gen)
             IN  IF ~HasPerson(ps, e.handle)
                 THEN [queue |-> rest, generations |-> g2]
                 ELSE [queue |-> Push(rest, Expand(PersonOf(ps, e.handle), e.gen, g2, fs)),
                       generations |-> g2]

\* generation ? generation - 1 : 0
fallbackGen(p) == IF p.generation # NoHint THEN p.generation - 1 ELSE 0

RECURSIVE FallbackPassOverwrite(_, _)
FallbackPassOverwrite(ps, gens) ==
    IF ps = <<>> THEN gens
    ELSE LET p == Head(ps)
         IN  FallbackPassOverwrite(Tail(ps),
                                   IF Has(gens, p.handle) /\ p.generation = NoHint THEN gens
                                   ELSE SetGen(gens, p.handle, fallbackGen(p)))

RECURSIVE FallbackPassHintedOnly(_, _)
FallbackPassHintedOnly(ps, gens) ==
    IF ps = <<>> THEN gens
    ELSE LET p == Head(ps)
         IN  FallbackPassHintedOnly(Tail(ps),
                                    IF Has(gens, p.handle) \/ p.generation = NoHint THEN gens
                                    ELSE SetGen(gens, p.handle, fallbackGen(p)))

\* for (const p of people) if (!generations.has(p.handle)) generations.set(...)
RECURSIVE FallbackPass(_, _)
FallbackPass(ps, gens) ==
    IF ps = <<>> THEN gens
    ELSE LET p == Head(ps)
         IN  FallbackPass(Tail(ps),
                          IF Has(gens, p.handle) THEN gens
                          ELSE SetGen(gens, p.handle, fallbackGen(p)))

\* --------------------------------------------- Step 2: the person entries
\* formatYears: the kinds stand for the four strings it builds.
formatYears(birth, death, isLiving) ==
    IF birth = 0 THEN [kind |-> "dash", birth |-> 0, death |-> 0]
    ELSE IF death # 0 THEN [kind |-> "birth-death", birth |-> birth, death |-> death]
    ELSE IF isLiving THEN [kind |-> "birth-nay", birth |-> birth, death |-> 0]
    ELSE [kind |-> "birth", birth |-> birth, death |-> 0]
NoYears == [kind |-> Undefined, birth |-> 0, death |-> 0]

\* for (const pfId of p.parentFamilies): every union that has a father known
\* to personMap assigns fatherName.
RECURSIVE FatherNameLoop(_, _, _, _)
FatherNameLoop(pfIds, acc, ps, fs) ==
    IF pfIds = <<>> THEN acc
    ELSE LET id == Head(pfIds)
             h == IF HasFamily(fs, id) THEN FamilyOf(fs, id).fatherHandle ELSE NoHandle
         IN  FatherNameLoop(Tail(pfIds),
                            IF h # NoHandle /\ HasPerson(ps, h)
                            THEN PersonOf(ps, h).displayName ELSE acc,
                            ps, fs)

RECURSIVE MotherNameLoop(_, _, _, _)
MotherNameLoop(pfIds, acc, ps, fs) ==
    IF pfIds = <<>> THEN acc
    ELSE LET id == Head(pfIds)
             h == IF HasFamily(fs, id) THEN FamilyOf(fs, id).motherHandle ELSE NoHandle
         IN  MotherNameLoop(Tail(pfIds),
                            IF h # NoHandle /\ HasPerson(ps, h)
                            THEN PersonOf(ps, h).displayName ELSE acc,
                            ps, fs)

FatherName(p, ps, fs) == FatherNameLoop(p.parentFamilies, Undefined, ps, fs)
MotherName(p, ps, fs) == MotherNameLoop(p.parentFamilies, Undefined, ps, fs)

\* The other parent slot of a union.
spouseHandle(p, fam) ==
    IF fam.fatherHandle = p.handle THEN fam.motherHandle ELSE fam.fatherHandle

NoSpouse == [spouseName |-> Undefined, spouseYears |-> NoYears, spouseNote |-> Undefined]

\* What one union of p.families does to the three spouse variables.
SpouseStep(acc, spouse) ==
    [spouseName |-> spouse.displayName,
     spouseYears |-> formatYears(spouse.birthYear, spouse.deathYear, spouse.isLiving),
     spouseNote |-> IF ~spouse.isPatrilineal THEN OutOfLineage ELSE acc.spouseNote]

RECURSIVE SpouseLoop(_, _, _, _, _)
SpouseLoop(famIds, acc, p, ps, fs) ==
    IF famIds = <<>> THEN acc
    ELSE LET id == Head(famIds)
             sh == IF HasFamily(fs, id) THEN spouseHandle(p, FamilyOf(fs, id)) ELSE NoHandle
         IN  SpouseLoop(Tail(famIds),
                        IF sh # NoHandle /\ HasPerson(ps, sh)
                        THEN SpouseStep(acc, PersonOf(ps, sh)) ELSE acc,
                        p, ps, fs)

Spouse(p, ps, fs) == SpouseLoop(p.families, NoSpouse, p, ps, fs)

ChildEntry(child) ==
    [name |-> child.displayName,
     years |-> formatYears(child.birthYear, child.deathYear, child.isLiving),
     note |-> IF ~child.isPatrilineal THEN OutOfLineage ELSE Undefined]

ChildrenOfFamily(fam, ps) ==
    MapSeq(SelectSeq(fam.children, LAMBDA ch : HasPerson(ps, ch)),
           LAMBDA ch : ChildEntry(PersonOf(ps, ch)))

ChildrenOf(p, ps, fs) ==
    Concat(MapSeq(p.families,
                  LAMBDA id : IF HasFamily(fs, id)
                              THEN ChildrenOfFamily(FamilyOf(fs, id), ps) ELSE <<>>))

\* The position of p among the children of the first entry of parentFamilies.
ChildIndex(p, fs) ==
    IF Len(p.parentFamilies) > 0 /\ HasFamily(fs, p.parentFamilies[1])
    THEN LET idx == IndexOf(FamilyOf(fs, p.parentFamilies[1]).children, p.handle)
         IN  IF idx >= 0 THEN idx + 1 ELSE NoIndex
    ELSE NoIndex

\* generations.get(h) ?? 0
GenOf(gens, h) == IF Has(gens, h) THEN gens[h] ELSE 0

BookPerson(p, gens, ps, fs) ==
    LET sp == Spouse(p, ps, fs)
    IN  [handle |-> p.handle,
         name |-> p.displayName,
         gender |-> p.gender,
         birthYear |-> p.birthYear,
         deathYear |-> p.deathYear,
         isLiving |-> p.isLiving,
         isPatrilineal |-> p.isPatrilineal,
         generation |-> GenOf(gens, p.handle),
         fatherName |-> FatherName(p, ps, fs),
         motherName |-> MotherName(p, ps, fs),
         spouseName |-> sp.spouseName,
         spouseYears |-> sp.spouseYears,
         spouseNote |-> sp.spouseNote,
         children |-> ChildrenOf(p, ps, fs),
         childIndex |-> ChildIndex(p, fs)]

bookPersons(gens, ps, fs) ==
    MapSeq(SelectSeq(ps, LAMBDA p : p.isPatrilineal),
           LAMBDA p : BookPerson(p, gens, ps, fs))

\* ------------------------------------------------- Step 3: the chapters
ROMAN == <<"I", "II", "III", "IV", "V", "VI", "VII", "VIII", "IX", "X",
           "XI", "XII", "XIII", "XIV", "XV", "XVI", "XVII", "XVIII", "XIX", "XX">>
romanNumeral(n) == IF n + 1 <= Len(ROMAN) THEN ROMAN[n + 1] ELSE ToString(n + 1)
GEN_NAMES(gen) == IF gen = 0 THEN "THUY TO" ELSE ""
genTitle(gen) == [prefix |-> "DOI THU", roman |-> romanNumeral(gen), name |-> GEN_NAMES(gen)]

maxGen(gens) == MaxOf({0} \cup {gens[h] : h \in DOMAIN gens})

\* a.childIndex ?? 99
SortKey(bp) == IF bp.childIndex = NoIndex THEN SortDefault ELSE bp.childIndex

Members(bps, g) == StableSortBy(SelectSeq(bps, LAMBDA bp : bp.generation = g), SortKey)

Chapter(bps, g) ==
    [generation |-> g, title |-> genTitle(g), romanNumeral |-> romanNumeral(g),
     members |-> Members(bps, g)]

\* for (let g = 0; g <= maxGen; g++): generations without members are skipped.
RECURSIVE ChapterLoop(_, _, _)
ChapterLoop(bps, g, last) ==
    IF g > last THEN <<>>
    ELSE (IF Members(bps, g) = <<>> THEN <<>> ELSE <<Chapter(bps, g)>>)
           \o ChapterLoop(bps, g + 1, last)

chaptersFromOne(bps, gens) == ChapterLoop(bps, 1, maxGen(gens))
chapters(bps, gens) == ChapterLoop(bps, 0, maxGen(gens))

\* ------------------------------------------------ Step 4: the name index
\* The display names of the model, listed in the order localeCompare(.., 'vi')
\* gives them; a name's collation key is its position in this list.
NAMES == <<"Hoang An", "Hoang Anh", "Hoang Binh", "Hoang Dat", "Hoang Em", "Hoang Yen">>
Collate(name) == CHOOSE i \in 1..Len(NAMES) : NAMES[i] = name

IndexEntry(p, gens) ==
    [name |-> p.displayName, generation |-> GenOf(gens, p.handle),
     isPatrilineal |-> p.isPatrilineal]

nameIndex(ps, gens) ==
    StableSortBy(MapSeq(ps, LAMBDA p : IndexEntry(p, gens)), LAMBDA e : Collate(e.name))

\* The people array after Step 4: map() returns a new array and sort() orders
\* that one, so the argument keeps its order.
PeopleSortedInPlace(ps) == StableSortBy(ps, LAMBDA p : Collate(p.displayName))
PeopleAfterIndex(ps) == ps

\* ------------------------------------------------------------ the result
\* toLocaleDateString('vi-VN', {year, month: 'long', day}) keeps the calendar
\* date of the instant and drops the time of day.
FormatDate(t) == [day |-> t.day, month |-> t.month, year |-> t.year]

BookData(ps, fs, label, gens, t) ==
    [familyName |-> label,
     exportDate |-> FormatDate(t),
     totalGenerations |-> maxGen(gens) + 1,
     totalMembers |-> Len(ps),
     totalPatrilineal |-> Len(SelectSeq(ps, LAMBDA p : p.isPatrilineal)),
     chapters |-> chapters(bookPersons(gens, ps, fs), gens),
     nameIndex |-> nameIndex(ps, gens)]

\* ================================================================ inputs
\* Vital data are a fixed function of the handle; the tables repeat beyond
\* their length. The names are not in collation order by handle.
NameOrder == <<4, 1, 3, 2, 5, 6>>
DisplayName(h) == NAMES[NameOrder[((h - 1) % Len(NameOrder)) + 1]]
BirthYears == <<1900, 0, 1950, 1980>>
DeathYears == <<1970, 0, 0, 0>>
BirthYear(h) == BirthYears[((h - 1) % Len(BirthYears)) + 1]
DeathYear(h) == DeathYears[((h - 1) % Len(DeathYears)) + 1]
IsLiving(h) == h % 4 = 3
Gender(h) == IF h % 2 = 1 THEN 1 ELSE 2

\* The generation hints of the people list: absent, 3 or 5 by handle.
HintRow == <<NoHint, 3, 5>>
HintOf(h) == HintRow[((h - 1) % Len(HintRow)) + 1]

MkPerson(h, patri, hint, fams, pfams) ==
    [handle |-> h, displayName |-> DisplayName(h), gender |-> Gender(h),
     birthYear |-> BirthYear(h), deathYear |-> DeathYear(h), isLiving |-> IsLiving(h),
     isPatrilineal |-> patri, generation |-> hint,
     families |-> fams, parentFamilies |-> pfams]

MkUnion(id, f, m, chs) ==
    [handle |-> id, fatherHandle |-> f, motherHandle |-> m, children |-> chs]

\* Sequences without repetition over S, of length at most n.
RECURSIVE SeqsUpTo(_, _)
SeqsUpTo(S, n) ==
    IF n = 0 THEN {<<>>}
    ELSE LET shorter == SeqsUpTo(S, n - 1)
         IN  shorter \cup {Append(s, x) : s \in shorter, x \in S}

DistinctSeqs(S, n) ==
    {s \in SeqsUpTo(S, n) : \A i, j \in 1..Len(s) : i # j => s[i] # s[j]}

\* The shape of one union: its parents (distinct when both are recorded) and
\* an ordered list of children among the other people.
UnionShapes ==
    {sh \in [f : Handles \cup {NoHandle}, m : Handles \cup {NoHandle},
             chs : DistinctSeqs(Handles, MaxChildren)] :
        /\ (sh.f = sh.m) => (sh.f = NoHandle)
        /\ sh.f \notin Range(sh.chs) /\ sh.m \notin Range(sh.chs)}

\* Consistent linkage: a person's families are the unions that name it as a
\* parent, its parentFamilies the unions that list it as a child, both in
\* the order of the families array.
IdsWhere(fs, Test(_)) ==
    MapSeq(SelectSeq(fs, Test), LAMBDA f : f.handle)
FamiliesOf(h, fs) == IdsWhere(fs, LAMBDA f : f.fatherHandle = h \/ f.motherHandle = h)
ParentFamiliesOf(h, fs) == IdsWhere(fs, LAMBDA f : h \in Range(f.children))

LinkedPeople(patri, fs) ==
    [h \in Handles |-> MkPerson(h, patri[h], HintOf(h),
                                FamiliesOf(h, fs), ParentFamiliesOf(h, fs))]

Instants ==
    {[year |-> 2026, month |-> 11, day |-> 1, hour |-> 9],
     [year |-> 2026, month |-> 11, day |-> 1, hour |-> 17],
     [year |-> 2026, month |-> 11, day |-> 2, hour |-> 9]}

\* ================================================================= state
VARIABLES
    people,       \* argument: TreeNode[]
    families,     \* argument: TreeFamily[]
    familyName,   \* argument: the family label
    pc,           \* "idle", "bfs" (the while loop), "build" (after the fallback pass), "done"
    queue,        \* local: the BFS worklist
    generations,  \* local: Map<string, number>
    returned,     \* the BookData values returned so far, oldest first
    callsLeft     \* how many more invocations the caller makes

vars == <<people, families, familyName, pc, queue, generations, returned, callsLeft>>

NoGenerations == [h \in {} |-> 0]

Idle(calls) ==
    /\ familyName = DefaultFamilyName
    /\ pc = "idle"
    /\ queue = <<>>
    /\ generations = NoGenerations
    /\ returned = <<>>
    /\ callsLeft = calls

\* Well-linked inputs of NumPeople people and NumUnions unions.
LinkedInput ==
    \E shapes \in [UnionIds -> UnionShapes], patri \in [Handles -> BOOLEAN] :
        /\ families = [u \in UnionIds |->
                          MkUnion(u, shapes[u].f, shapes[u].m, shapes[u].chs)]
        /\ people = LinkedPeople(patri, families)

\* Inputs whose linkage disagrees with the unions in one place: one person's
\* families or parentFamilies gains a union that does not name the person (or
\* an id that names no union), or loses one that does. Unions have at most
\* one child here, and the patrilineal flags follow one of two patterns.
Toggle(s, u) ==
    IF u \in Range(s) THEN SelectSeq(s, LAMBDA x : x # u) ELSE Append(s, u)

Edits == [field : {"families", "parentFamilies"}, person : Handles,
          union : UnionIds \cup {DanglingId}]

Edited(ps, e) ==
    [h \in DOMAIN ps |->
        IF h # e.person THEN ps[h]
        ELSE IF e.field = "families"
             THEN [ps[h] EXCEPT !.families = Toggle(@, e.union)]
             ELSE [ps[h] EXCEPT !.parentFamilies = Toggle(@, e.union)]]

SmallShapes == {sh \in UnionShapes : Len(sh.chs) <= 1}
PatriPatterns == {[h \in Handles |-> TRUE], [h \in Handles |-> h # NumPeople]}

EditedInput ==
    \E shapes \in [UnionIds -> SmallShapes], patri \in PatriPatterns, e \in Edits :
        /\ families = [u \in UnionIds |->
                          MkUnion(u, shapes[u].f, shapes[u].m, shapes[u].chs)]
        /\ people = Edited(LinkedPeople(patri, families), e)

\* Inputs with one union of about SortDefault children: the list is padded with
\* a handle that names no person, so its last child has a birth-order index
\* just below, at or above SortDefault.
Pad(n) == [i \in 1..n |-> GhostHandle]
WideShapes ==
    {sh \in [f : {NoHandle, 1}, m : {NoHandle}, chs : {Pad(n) \o <<c>> :
                  c \in Handles, n \in {SortDefault - 2, SortDefault - 1, SortDefault}}] :
        sh.f \notin Range(sh.chs)}

WideInput ==
    \E sh \in WideShapes, patri \in [Handles -> BOOLEAN] :
        /\ families = <<MkUnion(1, sh.f, sh.m, sh.chs)>>
        /\ people = LinkedPeople(patri, families)

\* One invocation on any of the inputs.
Init == (LinkedInput \/ EditedInput \/ WideInput) /\ Idle(1)

\* One invocation on a well-linked or a wide input.
InitFair == (LinkedInput \/ WideInput) /\ Idle(1)

\* MaxCalls invocations in a row on the same well-linked input.
InitAgain == LinkedInput /\ Idle(MaxCalls)

\* ================================================================ actions
\* Entry of generateBookData up to the start of the while loop.
Invoke ==
    /\ pc \in {"idle", "done"}
    /\ callsLeft > 0
    /\ callsLeft' = callsLeft - 1
    /\ generations' = NoGenerations
    /\ queue' = RootQueue(people, families)
    /\ pc' = "bfs"
    /\ UNCHANGED <<people, families, familyName, returned>>

\* One iteration of while (queue.length > 0).
BfsLoop ==
    /\ pc = "bfs"
    /\ queue # <<>>
    /\ LET r == BfsIteration(queue, generations, people, families)
       IN  /\ queue' = r.queue
           /\ generations' = r.generations
    /\ UNCHANGED <<people, families, familyName, pc, returned, callsLeft>>

\* The loop exits on an empty queue; the fallback pass follows.
Fallback ==
    /\ pc = "bfs"
    /\ queue = <<>>
    /\ generations' = FallbackPass(people, generations)
    /\ pc' = "build"
    /\ UNCHANGED <<people, families, familyName, queue, returned, callsLeft>>

\* Steps 2 to 4 and the return; the export date is read from the clock.
Synthesize ==
    /\ pc = "build"
    /\ \E t \in Instants :
          returned' = Append(returned, BookData(people, families, familyName, generations, t))
    /\ people' = PeopleAfterIndex(people)
    /\ pc' = "done"
    /\ UNCHANGED <<families, familyName, queue, generations, callsLeft>>

Next == Invoke \/ BfsLoop \/ Fallback \/ Synthesize

Spec == Init /\ [][Next]_vars

\* The loop is synchronous code: an iteration that can run does run, and so
\* does the exit of the loop.
FairSpec == InitFair /\ [][Next]_vars /\ WF_vars(BfsLoop) /\ WF_vars(Fallback)

SpecAgain == InitAgain /\ [][Next]_vars

\* ================================================================ claims
PeopleSet == Range(people)
UnionSet == Range(families)

\* The generation step (traversal, then fallback pass) has finished.
Resolved == pc \in {"build", "done"}
\* The while loop has just exited: the map holds what the traversal assigned.
LoopExit == pc = "bfs" /\ queue = <<>>

ParentsOf(u) == {u.fatherHandle, u.motherHandle} \ {NoHandle}
ListsUnion(p, u) == u.handle \in Range(p.families)

\* h sits on a parent/child cycle: a union h expands leads, through a child's
\* or a grandchild's union, back to h as a child.
ChildrenVia(h) ==
    IF HasPerson(people, h)
    THEN UNION {Range(u.children) : u \in {v \in UnionSet : ListsUnion(PersonOf(people, h), v)}}
    ELSE {}
OnCycle(h) ==
    \/ h \in ChildrenVia(h)
    \/ \E c \in ChildrenVia(h) : h \in ChildrenVia(c)
    \/ \E c \in ChildrenVia(h) : \E d \in ChildrenVia(c) : h \in ChildrenVia(d)

\* C1: when the generation step has finished, every handle of the people
\* collection has a generation in the map (one integer each), whether or not
\* a root reaches it and whether or not it lies on a parent/child cycle.
C1_Totality ==
    Resolved => \A p \in PeopleSet :
                    Has(generations, p.handle) /\ generations[p.handle] \in Int

\* C1 witness: an input without any root where a person on a cycle ends up
\* with a generation.
C1_Witness ==
    /\ pc = "build"
    /\ roots(people, families) = <<>>
    /\ \E p \in PeopleSet : OnCycle(p.handle) /\ Has(generations, p.handle)

\* A person with no union linkage at all.
Unlinked(p) ==
    /\ p.families = <<>>
    /\ p.parentFamilies = <<>>
    /\ \A u \in UnionSet : p.handle \notin ParentsOf(u) \cup Range(u.children)

\* C2 (as claimed): a person with no union linkage, patrilineal or not,
\* resolves to hint - 1 when it carries a hint h >= 1 and to 0 without a hint.
C2_UnlinkedUsesHint ==
    Resolved => \A p \in PeopleSet :
                    Unlinked(p) =>
                        generations[p.handle] =
                            (IF p.generation >= 1 THEN p.generation - 1 ELSE 0)

\* C3 (as claimed): for every union whose father has generation g in the
\* final map, every child of that union that is a child of no other union has
\* generation g + 1.
OnlyChildOf(c, u) ==
    c \in Range(u.children) /\ \A v \in UnionSet : v # u => c \notin Range(v.children)

C3_ChildIsFatherPlusOne ==
    Resolved => \A u \in UnionSet :
                    (u.fatherHandle # NoHandle /\ Has(generations, u.fatherHandle)) =>
                        \A c \in Range(u.children) :
                            OnlyChildOf(c, u) =>
                                /\ Has(generations, c)
                                /\ generations[c] = generations[u.fatherHandle] + 1

\* C3 (amended): when the loop exits, take a union U whose father is a person
\* that lists U in its families and was assigned generation g by the
\* traversal, such that every other person the traversal assigned and that
\* lists U also has generation g. Then every child of U that is a child of no
\* other union and is named as father or mother by no union has generation
\* g + 1 in the final map.
FatherExpands(u, gens) ==
    /\ u.fatherHandle # NoHandle
    /\ HasPerson(people, u.fatherHandle)
    /\ ListsUnion(PersonOf(people, u.fatherHandle), u)
    /\ Has(gens, u.fatherHandle)
ListersAgree(u, gens) ==
    \A p \in PeopleSet :
        (ListsUnion(p, u) /\ Has(gens, p.handle)) => gens[p.handle] = gens[u.fatherHandle]
NamedAsParent(h) == \E v \in UnionSet : h \in ParentsOf(v)

C3_Propagation ==
    [][(LoopExit /\ pc' = "build") =>
         \A u \in UnionSet :
            (FatherExpands(u, generations) /\ ListersAgree(u, generations)) =>
                \A c \in Range(u.children) :
                    (OnlyChildOf(c, u) /\ ~NamedAsParent(c)) =>
                        /\ Has(generations', c)
                        /\ generations'[c] = generations[u.fatherHandle] + 1]_vars

\* C3 witness: a father the traversal reached at a generation above 0 whose
\* union has such a child, resolved to g + 1.
C3_Witness ==
    /\ pc = "build"
    /\ \E u \in UnionSet :
          /\ FatherExpands(u, generations)
          /\ ~IsRoot(PersonOf(people, u.fatherHandle), families)
          /\ \E c \in Range(u.children) :
                /\ OnlyChildOf(c, u) /\ ~NamedAsParent(c)
                /\ Has(generations, c)
                /\ generations[c] = generations[u.fatherHandle] + 1
                /\ generations[c] >= 2

\* C4: every valid root has generation 0 in the final map.
C4_RootsAtZero ==
    Resolved => \A p \in PeopleSet :
                    IsRoot(p, families) => generations[p.handle] = 0

\* C4 witness: a root that a person of a later generation names as the other
\* parent of a union it expands, so that an entry of generation above 0 was
\* enqueued for the root.
C4_Witness ==
    /\ pc = "build"
    /\ \E r \in PeopleSet, x \in PeopleSet, u \in UnionSet :
          /\ IsRoot(r, families)
          /\ generations[r.handle] = 0
          /\ ListsUnion(x, u)
          /\ r.handle \in ParentsOf(u)
          /\ generations[x.handle] > 0
          /\ \E y \in PeopleSet, v \in UnionSet :
                /\ IsRoot(y, families) /\ ListsUnion(y, v)
                /\ x.handle \in Range(v.children)

\* ------------------------------------------------- claims on the BookData
Done == pc = "done"
Book == returned[Len(returned)]
AllMembers(book) == Concat(MapSeq(book.chapters, LAMBDA ch : ch.members))
EntriesOf(book, h) == {bp \in Range(AllMembers(book)) : bp.handle = h}

MinOf(S) == CHOOSE m \in S : \A x \in S : m <= x
NameOrUndefined(h) ==
    IF HasPerson(people, h) THEN PersonOf(people, h).displayName ELSE Undefined

ExistingParentUnions(p) ==
    {i \in 1..Len(p.parentFamilies) : HasFamily(families, p.parentFamilies[i])}
ParentUnion(p, i) == FamilyOf(families, p.parentFamilies[i])

FirstFatherName(p) ==
    LET rec == {i \in ExistingParentUnions(p) : ParentUnion(p, i).fatherHandle # NoHandle}
    IN  IF rec = {} THEN Undefined
        ELSE NameOrUndefined(ParentUnion(p, MinOf(rec)).fatherHandle)
FirstMotherName(p) ==
    LET rec == {i \in ExistingParentUnions(p) : ParentUnion(p, i).motherHandle # NoHandle}
    IN  IF rec = {} THEN Undefined
        ELSE NameOrUndefined(ParentUnion(p, MinOf(rec)).motherHandle)

\* C5 (as claimed): for a patrilineal person whose parentFamilies lists more
\* than one existing union, fatherName and motherName are those of the first
\* union in parentFamilies order that records a father, respectively a mother.
C5_FirstParentUnionNames ==
    Done => \A p \in PeopleSet :
                (p.isPatrilineal /\ Cardinality(ExistingParentUnions(p)) > 1) =>
                    \A bp \in EntriesOf(Book, p.handle) :
                        /\ bp.fatherName = FirstFatherName(p)
                        /\ bp.motherName = FirstMotherName(p)

\* The unions of p.families, by position, that have a spouse known to the
\* people collection, and that spouse.
OtherParent(p, u) ==
    IF u.fatherHandle = p.handle THEN u.motherHandle ELSE u.fatherHandle
UnionsWithSpouse(p) ==
    {i \in 1..Len(p.families) :
        /\ HasFamily(families, p.families[i])
        /\ OtherParent(p, FamilyOf(families, p.families[i])) # NoHandle
        /\ HasPerson(people, OtherParent(p, FamilyOf(families, p.families[i])))}
LastSpouse(p) ==
    PersonOf(people,
             OtherParent(p, FamilyOf(families, p.families[MaxOf(UnionsWithSpouse(p))])))

\* C6 (as claimed): the three spouse fields describe one person, the spouse of
\* the last union of families that has a spouse; spouseNote is present exactly
\* when that spouse is not patrilineal.
C6_SpouseFieldsAgree ==
    Done => \A p \in PeopleSet :
                (p.isPatrilineal /\ UnionsWithSpouse(p) # {}) =>
                    \A bp \in EntriesOf(Book, p.handle) :
                        LET sp == LastSpouse(p)
                        IN  /\ bp.spouseName = sp.displayName
                            /\ bp.spouseYears =
                                   formatYears(sp.birthYear, sp.deathYear, sp.isLiving)
                            /\ (bp.spouseNote = OutOfLineage) <=> ~sp.isPatrilineal

\* C7 (as claimed): in every chapter the members with a childIndex are in
\* ascending order of it and no member without a childIndex comes before a
\* member that has one.
C7_MembersOrdered ==
    Done => \A k \in 1..Len(Book.chapters) :
                LET ms == Book.chapters[k].members
                IN  \A i, j \in 1..Len(ms) :
                        i < j =>
                            /\ (ms[i].childIndex # NoIndex /\ ms[j].childIndex # NoIndex)
                                   => ms[i].childIndex <= ms[j].childIndex
                            /\ ~(ms[i].childIndex = NoIndex /\ ms[j].childIndex # NoIndex)

\* C8: the chapters partition the patrilineal people by resolved generation:
\* each patrilineal person is a member once, in the chapter of its generation;
\* every member is a patrilineal person; no chapter is empty; chapter
\* generations ascend strictly.
MemberSlots(book, h) ==
    {<<k, i>> \in (1..Len(book.chapters)) \X (1..(NumPeople + 1)) :
        i <= Len(book.chapters[k].members) /\ book.chapters[k].members[i].handle = h}

C8_ChaptersPartition ==
    Done =>
        /\ \A p \in PeopleSet :
              p.isPatrilineal =>
                  /\ Cardinality(MemberSlots(Book, p.handle)) = 1
                  /\ \A sl \in MemberSlots(Book, p.handle) :
                        Book.chapters[sl[1]].generation = generations[p.handle]
        /\ \A bp \in Range(AllMembers(Book)) :
              HasPerson(people, bp.handle) /\ PersonOf(people, bp.handle).isPatrilineal
        /\ \A k \in 1..Len(Book.chapters) : Book.chapters[k].members # <<>>
        /\ \A k \in 1..(Len(Book.chapters) - 1) :
              Book.chapters[k].generation < Book.chapters[k + 1].generation

\* C8 witness: a book of two chapters or more that skips a generation, for an
\* input with a person who is not patrilineal and so is in no chapter.
C8_Witness ==
    /\ Done
    /\ Len(Book.chapters) >= 2
    /\ \E k \in 1..(Len(Book.chapters) - 1) :
          Book.chapters[k + 1].generation > Book.chapters[k].generation + 1
    /\ \E p \in PeopleSet : ~p.isPatrilineal /\ EntriesOf(Book, p.handle) = {}

\* C9 (as claimed): two invocations on the same people, unions and label
\* return the same BookData in every field, exportDate included.
C9_SameBookData ==
    \A i, j \in 1..Len(returned) : returned[i] = returned[j]

\* C9 (amended): two invocations on the same people, unions and label return
\* BookData that agree in every field other than exportDate (familyName, the
\* three totals, chapters, nameIndex); exportDate is the calendar date of each
\* invocation.
WithoutDate(book) == [f \in (DOMAIN book) \ {"exportDate"} |-> book[f]]

C9_SameButExportDate ==
    \A i, j \in 1..Len(returned) : WithoutDate(returned[i]) = WithoutDate(returned[j])

\* C9 witness: two returned books with different export dates, each with a
\* chapter of several members.
C9_Witness ==
    /\ Len(returned) >= 2
    /\ returned[1].exportDate # returned[2].exportDate
    /\ \E k \in 1..Len(returned[2].chapters) : Len(returned[2].chapters[k].members) >= 2

\* C10: once the while loop is entered, the queue eventually empties and the
\* loop is left, on every input (cycles, self-ancestors, several paths).
C10_LoopTerminates == (pc = "bfs") ~> (pc = "build")

\* C10 witness: the loop has exited after assigning a person that lies on a
\* parent/child cycle and was enqueued more than once.
C10_Witness ==
    /\ LoopExit
    /\ \E p \in PeopleSet :
          /\ OnCycle(p.handle)
          /\ Has(generations, p.handle)
          /\ \E u \in UnionSet, x \in PeopleSet :
                /\ p.handle \in ParentsOf(u)
                /\ ListsUnion(x, u) /\ x # p /\ Has(generations, x.handle)

\* The pair at the head of the queue names a handle that already has a
\* generation.
HeadAssigned == queue # <<>> /\ Has(generations, Head(queue).handle)

\* C11: first assignment wins. While the generation step runs, a handle that
\* has a generation keeps it in every later step (loop iteration or fallback
\* pass); dequeuing a pair whose handle is already assigned leaves the map
\* unchanged and only removes that pair from the queue, enqueuing nothing.
C11_FirstAssignmentWins ==
    [][pc = "bfs" =>
          /\ \A h \in DOMAIN generations :
                Has(generations', h) /\ generations'[h] = generations[h]
          /\ HeadAssigned => generations' = generations /\ queue' = Tail(queue)]_vars

\* C11 witness: the pair about to be dequeued names a handle the traversal
\* already assigned a different generation, and a person carrying a hint holds
\* a traversal generation that differs from what the hint would give.
C11_Witness ==
    /\ pc = "bfs"
    /\ HeadAssigned
    /\ generations[Head(queue).handle] # Head(queue).gen
    /\ \E p \in PeopleSet :
          /\ p.generation # NoHint
          /\ Has(generations, p.handle)
          /\ generations[p.handle] # fallbackGen(p)

\* The unions a person's families field resolves to.
UnionsListedBy(h) ==
    IF HasPerson(people, h)
    THEN {u \in UnionSet : \E i \in 1..Len(PersonOf(people, h).families) :
                               PersonOf(people, h).families[i] = u.handle}
    ELSE {}
\* One step that adds 0 (to a parent of a listed union) or 1 (to a child of it).
SameDepthStep(S) == UNION {ParentsOf(u) : u \in UNION {UnionsListedBy(h) : h \in S}}
NextDepthStep(S) == UNION {Range(u.children) : u \in UNION {UnionsListedBy(h) : h \in S}}

RECURSIVE SameDepthClosure(_)
SameDepthClosure(S) ==
    IF SameDepthStep(S) \subseteq S THEN S ELSE SameDepthClosure(S \cup SameDepthStep(S))

\* The handles some path from a valid root reaches with at most g child steps.
RECURSIVE WithinDepth(_)
WithinDepth(g) ==
    IF g = 0 THEN SameDepthClosure({r.handle : r \in Range(roots(people, families))})
    ELSE SameDepthClosure(WithinDepth(g - 1) \cup NextDepthStep(WithinDepth(g - 1)))

MinDepth(h) == MinOf({g \in 0..(NumPeople + 1) : h \in WithinDepth(g)})

\* C12 (as stated): when the while loop exits, every handle it assigned holds
\* the minimum generation over all paths from a valid root along the families
\* edges, a step to a parent of a listed union adding 0 and a step to a child
\* adding 1.
C12_MinimumDepth ==
    LoopExit => \A h \in DOMAIN generations : generations[h] = MinDepth(h)

====
